---- MODULE Spec2Model ----
(***************************************************************************)
(* Model of the melody tracker of kilomelo/audio_analysis                  *)
(* (src/visualizer/melody_layer.py, MelodyLayer) as driven by the compute  *)
(* loop (src/qapp.py, src/visualizer/mpl_canvas.py).                       *)
(*                                                                         *)
(* Times are integers counted in ticks of 1/TicksPerSecond seconds,        *)
(* frequencies are integers in Hz, and the floating-point quotients of the *)
(* code are exact rationals <<numerator, denominator>>.                    *)
(***************************************************************************)
EXTENDS Integers, Sequences, FiniteSets, TLC

VARIABLES
    times,                           \* MelodyLayer.times
    freqs,                           \* MelodyLayer.freqs
    volumes,                         \* MelodyLayer.volumes
    possible_misjudgment_peak_time,  \* anchor time, None when Idle
    possible_misjudgment_peak_freq,  \* anchor frequency, None when Idle
    compute_thread,                  \* "running", or "dead" once process raised
    last,                            \* what the last call did (observation only)
    input,                           \* arguments of a function applied on its own
    output,                          \* the function applied and what it returned
    data_buffer,                     \* MplCanvas.data_buffer, frames by number
    latest_artists,                  \* the frame MplCanvas.latest_artists shows
    frames,                          \* frames computed so far
    compute_pc,                      \* where the compute thread is in process
    ui_pc,                           \* where the UI thread is in clean
    sample_rate,                     \* BaseAudioProcessor.sample_rate
    chunk_size,                      \* BaseAudioProcessor.chunk_size
    n_fft,                           \* BaseAudioProcessor.n_fft
    observers,                       \* BaseAudioProcessor._observers
    notified,                        \* the parameters each observer was last called with
    processing,                      \* MainWindow.processing, the run flag
    loop,                            \* where _compute_loop is, and its locals
    data_ready,                      \* audio_processor.data_ready
    producer,                        \* where the audio callback is
    audio_blocks,                    \* audio_processor.audio_blocks, blocks by number
    current_frame,                   \* FileAudioProcessor.current_frame
    processed,                       \* the newest block a compute frame was given
    spectrum_axis,                   \* the parameters SpectrumCurveLayer's axes are for
    detector_axis                    \* the parameters PeakDetector's axes are for

vars == <<times, freqs, volumes, possible_misjudgment_peak_time,
          possible_misjudgment_peak_freq, compute_thread, last,
          input, output, data_buffer, latest_artists, frames, compute_pc, ui_pc,
          sample_rate, chunk_size, n_fft, observers, notified,
          processing, loop, data_ready, producer, audio_blocks, current_frame, processed,
          spectrum_axis, detector_axis>>

\* The frame buffer of the canvas, the positions of the two threads inside a
\* call, and the audio processor.
canvas == <<data_buffer, latest_artists, frames>>
threads == <<compute_pc, ui_pc>>
processor == <<sample_rate, chunk_size, n_fft, observers, notified>>

\* The audio source, the compute loop and the frequency axes of the layers.
source == <<audio_blocks, current_frame, data_ready, producer>>
runloop == <<processing, loop, processed>>
axes == <<spectrum_axis, detector_axis>>
rest == <<source, runloop, axes>>

\* The variables that the calls of the melody tracker leave alone.
apart == <<input, output, canvas, threads, processor, rest>>

melody == <<times, freqs, volumes, possible_misjudgment_peak_time,
            possible_misjudgment_peak_freq>>

-----------------------------------------------------------------------------
(* Bounds of the model *)

TicksPerSecond == 15
MaxTime == 2
\* A frame adds a point only to a history of at most MaxLen points.
MaxLen == 2

\* Every frequency up to MaxFreq is an argument of the functions applied on
\* their own.
MaxFreq == 12

\* The most peaks in the peak list of a frame, where the list is an argument.
MaxPeaks == 3

\* The most peaks that reach the final selection of the peak detector.
MaxFound == 6

\* The most frames the compute loop computes.
MaxFrames == 4

\* The number of observers there are to register.
MaxObservers == 3

\* The longest note string.
MaxNoteLen == 4

\* The most blocks the audio callback delivers.
MaxBlocks == 3

\* Frames computed from a file source
MaxFileFrames == 2

-----------------------------------------------------------------------------
(* Configuration, src/config.py MELODY_LAYER_PARAMS *)

None == -1

time_window == 10 * TicksPerSecond

\* 0.2 s
misjudgment_max_duration == TicksPerSecond \div 5

\* multiplication_tolerance = 0.05 = ToleranceNum / ToleranceDen
ToleranceNum == 1
ToleranceDen == 20

peak_db_offset == 50

\* main_peak_threshold = 0.5 = ThresholdNum / ThresholdDen
ThresholdNum == 1
ThresholdDen == 2

MaxHarmonic == 5

-----------------------------------------------------------------------------
(* Inputs of a frame *)

\* current_time of a frame: 0 (ignored); the first MaxTime ticks; a tick more
\* than misjudgment_max_duration after all of those; and a tick so late that all
\* of those have left the window.  They come in any order and may repeat:
\* playback loops and seeks move current_time backwards.
PastDuration == MaxTime + misjudgment_max_duration + 1

LateTime == time_window + MaxTime + 1

TimeValues == (0 .. MaxTime) \cup {PastDuration, LateTime}

\* 440 Hz, its octave, and a frequency in no recognised ratio to either.
PeakFreqs == {440, 470, 880}

PeakDbs == {-40, -10}

Volumes == {-20}

\* Peak lists in ascending frequency, as PeakDetector._sort_peaks returns them:
\* no peak, one peak, or a fundamental with its octave, one of them weak.
PeakLists ==
    {<<>>}
    \cup {<<<<f, -10>>>> : f \in PeakFreqs}
    \cup {<<<<440, d[1]>>, <<880, d[2]>>>> :
              d \in {e \in PeakDbs \X PeakDbs : e[1] # e[2]}}

-----------------------------------------------------------------------------
(* is_frequency_multiplication_relationship *)

Abs(x) == IF x < 0 THEN -x ELSE x

Zero == <<0, 1>>

RECURSIVE Gcd(_, _)
Gcd(a, b) == IF b = 0 THEN a ELSE Gcd(b, a % b)

\* valid_ratios: the set {k1/k2 : 1 <= k2 <= k1 <= 5}, each quotient once
valid_ratios ==
    {<<k1 \div Gcd(k1, k2), k2 \div Gcd(k1, k2)>> :
        k1 \in 1 .. MaxHarmonic, k2 \in 1 .. MaxHarmonic} \cap
    {r \in (1 .. MaxHarmonic) \X (1 .. MaxHarmonic) : r[2] <= r[1]}

\* "for candidate in valid_ratios": the members of valid_ratios in the order in
\* which CPython iterates that set of floats.
IterationOrder ==
    << <<1, 1>>, <<2, 1>>, <<3, 1>>, <<4, 1>>, <<3, 2>>,
       <<4, 3>>, <<5, 1>>, <<5, 2>>, <<5, 3>>, <<5, 4>> >>

\* |larger/smaller - c| < |larger/smaller - d|, cross-multiplied
CloserThan(larger, smaller, c, d) ==
    Abs(larger * c[2] - c[1] * smaller) * d[2]
        < Abs(larger * d[2] - d[1] * smaller) * c[2]

RECURSIVE ClosestFrom(_, _, _, _)
ClosestFrom(larger, smaller, i, best) ==
    IF i > Len(IterationOrder) THEN best
    ELSE LET candidate == IterationOrder[i] IN
         IF CloserThan(larger, smaller, candidate, best)
         THEN ClosestFrom(larger, smaller, i + 1, candidate)
         ELSE ClosestFrom(larger, smaller, i + 1, best)

closest_ratio(larger, smaller) ==
    ClosestFrom(larger, smaller, 2, IterationOrder[1])

\* min_diff <= tolerance
WithinTolerance_Always(larger, smaller, c) == TRUE

WithinTolerance(larger, smaller, c) ==
    ToleranceDen * Abs(larger * c[2] - c[1] * smaller)
        <= ToleranceNum * smaller * c[2]

is_frequency_multiplication_relationship_Unsigned(freq1, freq2) ==
    IF freq1 = 0 \/ freq2 = 0 THEN Zero
    ELSE LET larger == IF freq1 > freq2 THEN freq1 ELSE freq2
             smaller == IF freq1 > freq2 THEN freq2 ELSE freq1
             c == closest_ratio(larger, smaller)
         IN  IF WithinTolerance(larger, smaller, c) THEN c ELSE Zero

is_frequency_multiplication_relationship(freq1, freq2) ==
    IF freq1 = 0 \/ freq2 = 0 THEN Zero
    ELSE LET larger == IF freq1 > freq2 THEN freq1 ELSE freq2
             smaller == IF freq1 > freq2 THEN freq2 ELSE freq1
             c == closest_ratio(larger, smaller)
             sign == IF freq1 > freq2 THEN 1 ELSE -1
         IN  IF WithinTolerance(larger, smaller, c)
             THEN <<sign * c[1], c[2]>>
             ELSE Zero

\* abs(multiplication) == 1
AbsIsOne(m) == Abs(m[1]) = 1 /\ m[2] = 1

-----------------------------------------------------------------------------
(* MelodyLayer.fix_misjudgment *)

\* fixed = freq * multiplication if multiplication > 0
\*         else freq / abs(multiplication)
\* The quotient is exact for every frequency the inputs of the model produce.
Fixed_IgnoresSign(freq, multiplication) ==
    (freq * Abs(multiplication[1])) \div multiplication[2]

Fixed(freq, multiplication) ==
    IF multiplication[1] > 0
    THEN (freq * multiplication[1]) \div multiplication[2]
    ELSE (freq * multiplication[2]) \div Abs(multiplication[1])

\* for i in range(0, len(self.freqs)): the body reads self.freqs[-i-2], which is
\* element Len(fs) - i - 1 counted from 1, and raises IndexError below element 1.
\* rewritten collects the frequencies replaced so far, newest first.
RECURSIVE FixLoop(_, _, _, _)
FixLoop(fs, i, anchor_freq, rewritten) ==
    IF i >= Len(fs) THEN [freqs |-> fs, fixed |-> rewritten, raised |-> FALSE]
    ELSE LET idx == Len(fs) - i - 1 IN
         IF idx < 1 THEN [freqs |-> fs, fixed |-> rewritten, raised |-> TRUE]
         ELSE LET multiplication ==
                      is_frequency_multiplication_relationship(anchor_freq, fs[idx])
              IN  IF multiplication = Zero
                  THEN FixLoop(fs, i + 1, anchor_freq, rewritten)
                  ELSE IF AbsIsOne(multiplication)
                  THEN [freqs |-> fs, fixed |-> rewritten, raised |-> FALSE]
                  ELSE FixLoop([fs EXCEPT ![idx] = Fixed(fs[idx], multiplication)],
                               i + 1, anchor_freq, Append(rewritten, fs[idx]))

\* The result of fix_misjudgment on (freqs, anchor): the rewritten freqs, the
\* anchor afterwards, the frequencies it replaced, and whether it raised.
fix_misjudgment(fs, anchor_time, anchor_freq) ==
    IF anchor_freq = None \/ Len(fs) < 3
    THEN [freqs |-> fs, time |-> anchor_time, freq |-> anchor_freq,
          fixed |-> <<>>, raised |-> FALSE]
    ELSE LET r == FixLoop(fs, 0, anchor_freq, <<>>) IN
         IF r.raised
         THEN [freqs |-> r.freqs, time |-> anchor_time, freq |-> anchor_freq,
               fixed |-> r.fixed, raised |-> TRUE]
         ELSE [freqs |-> r.freqs, time |-> None, freq |-> None,
               fixed |-> r.fixed, raised |-> FALSE]

-----------------------------------------------------------------------------
(* MelodyLayer.process *)

\* The index of the peak taken as the melody pitch, 0 when there is none.
MainPeakCondition(peaks, i) ==
    \/ i = Len(peaks)
    \/ ThresholdDen * (peaks[i][2] + peak_db_offset)
           > ThresholdNum * (peaks[i + 1][2] + peak_db_offset)

MainPeak_Last(peaks) == Len(peaks)

MainPeak(peaks) ==
    IF \E i \in 1 .. Len(peaks) : MainPeakCondition(peaks, i)
    THEN CHOOSE i \in 1 .. Len(peaks) :
             /\ MainPeakCondition(peaks, i)
             /\ \A j \in 1 .. (i - 1) : ~MainPeakCondition(peaks, j)
    ELSE 0

\* valid_indices
ValidIndices(ts, current_time) ==
    {i \in 1 .. Len(ts) :
        ts[i] >= current_time - time_window /\ ts[i] <= current_time}

\* start_idx, counted from 1; 0 when valid_indices is empty
StartIdx(ts, current_time) ==
    IF ValidIndices(ts, current_time) = {} THEN 0
    ELSE CHOOSE i \in ValidIndices(ts, current_time) :
             \A j \in ValidIndices(ts, current_time) : i <= j

Evict(s, start_idx) ==
    IF start_idx = 0 THEN <<>> ELSE SubSeq(s, start_idx, Len(s))

\* The timeout test that ends the detection block.
Timeout(current_time, anchor_time, anchor_freq) ==
    /\ anchor_freq # None
    /\ current_time - anchor_time > misjudgment_max_duration

\* A branch that leaves freqs and the anchor as they are.
KeepAnchor(fs, anchor_time, anchor_freq, b) ==
    [freqs |-> fs, time |-> anchor_time, freq |-> anchor_freq,
     fixed |-> <<>>, raised |-> FALSE, branch |-> b]

\* "misjudgment start": the point before the newest becomes the anchor.
StartAnchor_Newest(ts, fs) ==
    [freqs |-> fs, time |-> ts[Len(fs)], freq |-> fs[Len(fs)],
     fixed |-> <<>>, raised |-> FALSE, branch |-> "start"]

\* times[-2] raises IndexError when times has fewer than two elements, which
\* takes another thread's write between the appends and this read.
StartAnchor(ts, fs) ==
    IF Len(ts) >= 2
    THEN [freqs |-> fs, time |-> ts[Len(ts) - 1], freq |-> fs[Len(fs) - 1],
          fixed |-> <<>>, raised |-> FALSE, branch |-> "start"]
    ELSE [freqs |-> fs, time |-> None, freq |-> None,
          fixed |-> <<>>, raised |-> TRUE, branch |-> "start"]

\* "misjudgment false": the anchor is cleared.
ClearAnchor_Keeps(fs, anchor_time, anchor_freq) ==
    [freqs |-> fs, time |-> anchor_time, freq |-> anchor_freq,
     fixed |-> <<>>, raised |-> FALSE, branch |-> "disproof"]

ClearAnchor(fs, anchor_time, anchor_freq) ==
    [freqs |-> fs, time |-> None, freq |-> None,
     fixed |-> <<>>, raised |-> FALSE, branch |-> "disproof"]

\* The branch of the detection block before the timeout test:
\* the freqs and anchor it leaves, and which branch it was.
Detect(ts, fs, anchor_time, anchor_freq) ==
    LET n == Len(fs)
        multiplication == is_frequency_multiplication_relationship(fs[n - 1], fs[n])
    IN  IF multiplication # Zero
        THEN IF ~AbsIsOne(multiplication)
             THEN IF anchor_freq = None
                  THEN StartAnchor(ts, fs)
                  ELSE LET regress_multiplication ==
                               is_frequency_multiplication_relationship(anchor_freq, fs[n])
                       IN  IF AbsIsOne(regress_multiplication)
                           THEN LET r == fix_misjudgment(fs, anchor_time, anchor_freq)
                                IN  [freqs |-> r.freqs, time |-> r.time, freq |-> r.freq,
                                     fixed |-> r.fixed, raised |-> r.raised,
                                     branch |-> "confirm"]
                           ELSE KeepAnchor(fs, anchor_time, anchor_freq, "other")
             ELSE KeepAnchor(fs, anchor_time, anchor_freq, "same")
        ELSE IF anchor_freq # None
             THEN ClearAnchor(fs, anchor_time, anchor_freq)
             ELSE KeepAnchor(fs, anchor_time, anchor_freq, "unrelated")

\* The detection block of process (the statements under
\* "if has_new_melody and len(self.freqs) > 1") on the evicted history.
DetectAndTimeout(current_time, ts, fs) ==
    \E d \in {Detect(ts, fs, possible_misjudgment_peak_time,
                     possible_misjudgment_peak_freq)} :
    \E timed_out \in {~d.raised /\ Timeout(current_time, d.time, d.freq)} :
        /\ freqs' = d.freqs
        /\ possible_misjudgment_peak_time' = IF timed_out THEN None ELSE d.time
        /\ possible_misjudgment_peak_freq' = IF timed_out THEN None ELSE d.freq
        /\ compute_thread' = IF d.raised THEN "dead" ELSE "running"
        /\ last' = [op |-> "process", time |-> current_time, added |-> TRUE,
                    freq |-> fs[Len(fs)], branch |-> d.branch,
                    timeout |-> timed_out, fixed |-> d.fixed]

\* "if current_time <= 0: return"
Ignored_Negative(current_time) == current_time < 0

Ignored(current_time) == current_time <= 0

Process(current_time, peaks, volume) ==
    /\ compute_thread = "running"
    /\ IF Ignored(current_time)
       THEN /\ UNCHANGED <<melody, compute_thread>>
            /\ last' = [op |-> "process", time |-> current_time, added |-> FALSE,
                        freq |-> None, branch |-> "ignored",
                        timeout |-> FALSE, fixed |-> <<>>]
       ELSE \E main \in {MainPeak(peaks)} :
            \E has_new_melody \in {main # 0} :
            \E ts1 \in {IF has_new_melody THEN Append(times, current_time) ELSE times} :
            \E fs1 \in {IF has_new_melody THEN Append(freqs, peaks[main][1]) ELSE freqs} :
            \E vs1 \in {IF has_new_melody THEN Append(volumes, volume) ELSE volumes} :
            \E start_idx \in {StartIdx(ts1, current_time)} :
            \E ts2 \in {Evict(ts1, start_idx)} :
            \E fs2 \in {Evict(fs1, start_idx)} :
                /\ times' = ts2
                /\ volumes' = Evict(vs1, start_idx)
                /\ IF has_new_melody /\ Len(fs2) > 1
                   THEN DetectAndTimeout(current_time, ts2, fs2)
                   ELSE /\ freqs' = fs2
                        /\ UNCHANGED <<possible_misjudgment_peak_time,
                                       possible_misjudgment_peak_freq, compute_thread>>
                        /\ last' = [op |-> "process", time |-> current_time,
                                    added |-> has_new_melody,
                                    freq |-> IF has_new_melody
                                             THEN peaks[main][1] ELSE None,
                                    branch |-> "skip", timeout |-> FALSE,
                                    fixed |-> <<>>]

-----------------------------------------------------------------------------
(* MelodyLayer.clean, run by MplCanvas.clean on the UI thread *)

Clean ==
    /\ times' = <<>>
    /\ freqs' = <<>>
    /\ volumes' = <<>>
    /\ UNCHANGED <<possible_misjudgment_peak_time, possible_misjudgment_peak_freq,
                   compute_thread>>
    /\ last' = [op |-> "clean", time |-> None, added |-> FALSE, freq |-> None,
                branch |-> "skip", timeout |-> FALSE, fixed |-> <<>>]
    /\ UNCHANGED apart

-----------------------------------------------------------------------------
(* The program: MelodyLayer.__init__, then frames and cleans in any order *)

\* BASE_PARAMS: default_sample_rate, chunk_size, n_fft
default_sample_rate == 44100
default_chunk_size == 2048
default_n_fft == 2048

\* The compute loop before its first iteration: no block and no time fetched,
\* no frame started after the run flag was reset.
AtLoopHead == [at |-> "while", chunk |-> 0, time |-> 0, late |-> 0]

\* Not inside a call.
AtRest == [at |-> "idle", main |-> 0, start_idx |-> 0]

Constructed ==
    /\ processing = TRUE
    /\ loop = AtLoopHead
    /\ data_ready = FALSE
    /\ producer = "idle"
    /\ audio_blocks = <<>>
    /\ current_frame = 0
    /\ processed = 0
    /\ spectrum_axis = <<>>
    /\ detector_axis = <<>>
    /\ data_buffer = <<>>
    /\ latest_artists = 0
    /\ frames = 0
    /\ compute_pc = AtRest
    /\ ui_pc = "idle"
    /\ sample_rate = default_sample_rate
    /\ chunk_size = default_chunk_size
    /\ n_fft = default_n_fft
    /\ observers = <<>>
    /\ notified = <<>>
    /\ times = <<>>
    /\ freqs = <<>>
    /\ volumes = <<>>
    /\ possible_misjudgment_peak_time = None
    /\ possible_misjudgment_peak_freq = None
    /\ compute_thread = "running"
    /\ last = [op |-> "init", time |-> None, added |-> FALSE, freq |-> None,
               branch |-> "skip", timeout |-> FALSE, fixed |-> <<>>]

NotApplied == [fn |-> "none", value |-> <<>>]

Init ==
    /\ Constructed
    /\ input = <<>>
    /\ output = NotApplied

\* A frame of the compute loop: MplCanvas.compute hands MelodyLayer.process the
\* frame's current_time, peaks and volume.
Frame ==
    \E current_time \in TimeValues, peaks \in PeakLists, volume \in Volumes :
        /\ IF peaks = <<>> THEN TRUE ELSE Len(times) <= MaxLen
        /\ Process(current_time, peaks, volume)
        /\ UNCHANGED apart

Next == Frame \/ Clean

Spec == Init /\ [][Next]_vars

-----------------------------------------------------------------------------
(* A recording played once from its start: every frame holds one peak and    *)
(* current_time grows from frame to frame, over the span in which an anchor   *)
(* set at the second frame is still within misjudgment_max_duration.          *)

TightTimes == 1 .. (2 + misjudgment_max_duration)

TightFreqs == {440, 660, 880}

TightFrame ==
    \E current_time \in TightTimes, f \in TightFreqs :
        /\ IF times = <<>> THEN TRUE ELSE times[Len(times)] < current_time
        /\ Process(current_time, <<<<f, -10>>>>, -20)
        /\ UNCHANGED apart

SpecTight == Init /\ [][TightFrame]_vars

-----------------------------------------------------------------------------
(* Vocabulary of the properties *)

Idle == possible_misjudgment_peak_freq = None

Suspect == possible_misjudgment_peak_freq # None

\* A recognised ratio other than 1.
NonTrivial(m) == m # Zero /\ ~AbsIsOne(m)

Newest(s) == s[Len(s)]

\* The points after point a are an excursion from the anchor: point a is the
\* anchor, and every later point has one frequency, exactly k times the
\* anchor's (or the anchor's exactly k times it) for a recognised ratio k
\* other than 1.
Excursion(a) ==
    /\ Suspect
    /\ a \in 1 .. (Len(freqs) - 1)
    /\ times[a] = possible_misjudgment_peak_time
    /\ freqs[a] = possible_misjudgment_peak_freq
    /\ \A j \in (a + 1) .. Len(freqs) : freqs[j] = Newest(freqs)
    /\ LET m == is_frequency_multiplication_relationship(freqs[a], Newest(freqs))
       IN  /\ NonTrivial(m)
           /\ \/ freqs[a] * m[2] = Newest(freqs) * Abs(m[1])
              \/ Newest(freqs) * m[2] = freqs[a] * Abs(m[1])

WithinDuration(current_time, anchor_time) ==
    current_time - anchor_time <= misjudgment_max_duration

\* The step is a call process(current_time, ...) with current_time > 0: one
\* that adds a point, and one that adds none.
Called == last'.op = "process" /\ last'.time > 0

AddsPoint == Called /\ last'.added

AddsNone == Called /\ ~last'.added

\* The number of points the call evicted.
Dropped == Len(times) + (IF last'.added THEN 1 ELSE 0) - Len(times')

\* Every frequency stored before the call and still stored after it has the
\* value it had.
StoredFreqsUnchanged ==
    \A i \in 1 .. Len(freqs) :
        i > Dropped => freqs'[i - Dropped] = freqs[i]

\* The newest stored point is still stored after the call, as the point before
\* the one the call adds.
PreviousKept == Len(times) >= 1 /\ Dropped < Len(times)

\* The ratio of the new point to the previous point, and to the anchor.
RatioToPrevious ==
    is_frequency_multiplication_relationship(Newest(freqs), last'.freq)

RatioToAnchor ==
    is_frequency_multiplication_relationship(possible_misjudgment_peak_freq,
                                             last'.freq)

-----------------------------------------------------------------------------
\* C1: with the latest point at f and no anchor, a point at k*f (k a recognised
\* ratio other than 1) makes the state Suspect with that f point as the anchor;
\* each further k*f point leaves it Suspect with the same anchor; and a point
\* back at f rewrites every k*f point to f and leaves the state Idle, all
\* within misjudgment_max_duration of the anchor.
C1_JumpAndRegress ==
    [][\A t \in TightTimes, f \in TightFreqs :
          Process(t, <<<<f, -10>>>>, -20) =>
            /\ ( /\ Idle
                 /\ freqs # <<>>
                 /\ NonTrivial(is_frequency_multiplication_relationship(Newest(freqs), f))
                 /\ WithinDuration(t, Newest(times)) )
               => /\ possible_misjudgment_peak_time' = Newest(times)
                  /\ possible_misjudgment_peak_freq' = Newest(freqs)
                  /\ freqs' = Append(freqs, f)
            /\ \A a \in 1 .. Len(freqs) :
                 ( /\ Excursion(a)
                   /\ f = Newest(freqs)
                   /\ WithinDuration(t, possible_misjudgment_peak_time) )
                 => /\ UNCHANGED <<possible_misjudgment_peak_time,
                                   possible_misjudgment_peak_freq>>
                    /\ freqs' = Append(freqs, f)
            /\ \A a \in 1 .. Len(freqs) :
                 ( /\ Excursion(a)
                   /\ f = freqs[a]
                   /\ WithinDuration(t, possible_misjudgment_peak_time) )
                 => /\ possible_misjudgment_peak_time' = None
                    /\ possible_misjudgment_peak_freq' = None
                    /\ freqs' = [j \in 1 .. (Len(freqs) + 1) |->
                                    IF j <= a THEN freqs[j] ELSE f]
      ]_vars

\* The case [440, 440, 880, 880, 440]: both 880 entries were rewritten and the
\* history ends as [440, 440, 440, 440, 440], Idle.
C1_Witness ==
    /\ times = <<1, 2, 3, 4, 5>>
    /\ freqs = <<440, 440, 440, 440, 440>>
    /\ last.branch = "confirm"
    /\ last.fixed = <<880, 880>>
    /\ Idle

-----------------------------------------------------------------------------
\* C2: a process call whose current_time exceeds anchor_time +
\* misjudgment_max_duration applies no retroactive fix: every frequency that was
\* stored before the call and is still stored after it has its old value.
C2_NoFixAfterDuration ==
    [][( /\ Suspect
         /\ Called
         /\ last'.time > possible_misjudgment_peak_time + misjudgment_max_duration )
       => StoredFreqsUnchanged
      ]_vars

-----------------------------------------------------------------------------
\* C3 as stated: while an anchor is active, a call that adds a point whose ratio
\* to the previous point is trivial (absolute value 1) clears the anchor, and
\* applies no fix.
C3_TrivialClears ==
    [][(Suspect /\ AddsPoint /\ PreviousKept /\ AbsIsOne(RatioToPrevious))
       => Idle' /\ StoredFreqsUnchanged
      ]_vars

\* C3: while an anchor is active, a call that adds a point whose ratio to the
\* previous point is trivial applies no fix and leaves the anchor as it is,
\* unless current_time is more than misjudgment_max_duration past the anchor
\* time, which clears it; the anchor is cleared without a fix by a point that is
\* in no recognised ratio (ratio 0) to the previous point.
C3_TrivialKeeps ==
    [][(Suspect /\ AddsPoint /\ PreviousKept)
       => /\ AbsIsOne(RatioToPrevious) =>
                /\ StoredFreqsUnchanged
                /\ IF WithinDuration(last'.time, possible_misjudgment_peak_time)
                   THEN UNCHANGED <<possible_misjudgment_peak_time,
                                    possible_misjudgment_peak_freq>>
                   ELSE Idle'
          /\ RatioToPrevious = Zero => Idle' /\ StoredFreqsUnchanged
      ]_vars

\* An anchor that survived a point at the pitch of the point before it.
C3_Witness ==
    /\ Suspect
    /\ last.branch = "same"
    /\ Len(freqs) >= 2
    /\ freqs[Len(freqs) - 1] = Newest(freqs)

-----------------------------------------------------------------------------
\* C4: clean leaves times, freqs and volumes empty and no anchor, whatever the
\* state it is called in.
C4_CleanClearsAnchor ==
    [][Clean => /\ times' = <<>>
                /\ freqs' = <<>>
                /\ volumes' = <<>>
                /\ possible_misjudgment_peak_time' = None
                /\ possible_misjudgment_peak_freq' = None
      ]_vars

-----------------------------------------------------------------------------
\* C5: after a process call with current_time > 0 the history holds no point
\* with time < current_time - time_window, and it is empty if every point stored
\* when the eviction ran was older than that.
C5_WindowEviction ==
    [][Called
       => /\ \A i \in 1 .. Len(times') : times'[i] >= last'.time - time_window
          /\ ( /\ ~last'.added
               /\ \A i \in 1 .. Len(times) : times[i] < last'.time - time_window )
             => times' = <<>>
      ]_vars

-----------------------------------------------------------------------------
\* C6: a process call changes the frequency of a stored point only if the
\* point's time lies strictly between anchor_time and the time of the call's
\* new point, and it leaves the time and volume of every point it keeps.
C6_FixOnlyBetween ==
    [][Called
       => \A i \in 1 .. Len(freqs) :
              i > Dropped =>
                /\ times'[i - Dropped] = times[i]
                /\ volumes'[i - Dropped] = volumes[i]
                /\ freqs'[i - Dropped] # freqs[i] =>
                       /\ Suspect
                       /\ possible_misjudgment_peak_time < times[i]
                       /\ times[i] < last'.time
      ]_vars

-----------------------------------------------------------------------------
\* C7: while an anchor is active, a call that adds a point which is not back at
\* the anchor frequency rewrites no stored frequency, and clears the anchor if
\* the point arrives more than misjudgment_max_duration after the anchor time.
C7_NoReturnTimesOut ==
    [][(Suspect /\ AddsPoint /\ ~AbsIsOne(RatioToAnchor))
       => /\ StoredFreqsUnchanged
          /\ ~WithinDuration(last'.time, possible_misjudgment_peak_time) => Idle'
      ]_vars

-----------------------------------------------------------------------------
\* C8: after every process call, on frames that add a point and on frames that
\* add none, an anchor that is still active satisfies
\* current_time - anchor_time <= misjudgment_max_duration.
C8_AnchorWithinDuration ==
    [][(Called /\ Suspect')
       => WithinDuration(last'.time, possible_misjudgment_peak_time')
      ]_vars

-----------------------------------------------------------------------------
-----------------------------------------------------------------------------
\* C10: a call that confirms a regression (its new point is in a non-trivial
\* ratio to the previous point and back at the anchor frequency) has cleared
\* the anchor when it returns, however many points are stored.
C10_ConfirmClears ==
    [][( /\ Suspect
         /\ AddsPoint
         /\ PreviousKept
         /\ NonTrivial(RatioToPrevious)
         /\ AbsIsOne(RatioToAnchor)
         /\ compute_thread' = "running" )
       => Idle'
      ]_vars

-----------------------------------------------------------------------------
(* is_frequency_multiplication_relationship applied to a pair of frequencies.  *)
(* The frequencies are small enough that no quotient lies at exactly the       *)
(* tolerance from its nearest candidate, where the rounding of the floating-   *)
(* point difference would decide the comparison.                               *)

RatioFreqs == (0 .. MaxFreq) \cup {100, 440, 660, 880}

InitRatio ==
    /\ Constructed
    /\ input \in RatioFreqs \X RatioFreqs
    /\ output = NotApplied

ApplyRatio ==
    /\ output = NotApplied
    /\ output' = [fn |-> "is_frequency_multiplication_relationship",
                  value |-> is_frequency_multiplication_relationship(
                                input[1], input[2])]
    /\ UNCHANGED <<melody, compute_thread, last, input, canvas, threads, processor, rest>>

SpecRatio == InitRatio /\ [][ApplyRatio]_vars

RatioApplied == output.fn = "is_frequency_multiplication_relationship"

\* |q - c| > tolerance, for the quotient q = q[1] / q[2] and the candidate c
FartherThanTolerance(q, c) ==
    ToleranceDen * Abs(q[1] * c[2] - c[1] * q[2]) > ToleranceNum * q[2] * c[2]

\* |q - c| <= |q - d|
NoFartherThan(q, c, d) ==
    Abs(q[1] * c[2] - c[1] * q[2]) * d[2] <= Abs(q[1] * d[2] - d[1] * q[2]) * c[2]

-----------------------------------------------------------------------------
\* C12 as stated: the results for (440, 880), (440, 660) and (0, 100) are 2,
\* 1.5 and 0.
C12_AsStated ==
    RatioApplied =>
        /\ input = <<440, 880>> => output.value = <<2, 1>>
        /\ input = <<440, 660>> => output.value = <<3, 2>>
        /\ input = <<0, 100>> => output.value = Zero

\* C12: the results for (440, 880) and (440, 660) are -2 and -1.5, negative
\* because the first frequency is the smaller; those for (880, 440) and
\* (660, 440) are 2 and 1.5; the result for (0, 100) is 0.
C12_Examples ==
    RatioApplied =>
        /\ input = <<440, 880>> => output.value = <<-2, 1>>
        /\ input = <<440, 660>> => output.value = <<-3, 2>>
        /\ input = <<880, 440>> => output.value = <<2, 1>>
        /\ input = <<660, 440>> => output.value = <<3, 2>>
        /\ input = <<0, 100>> => output.value = Zero

C12_Witness ==
    /\ RatioApplied
    /\ input = <<440, 880>>
    /\ output.value = <<-2, 1>>

-----------------------------------------------------------------------------
(* Frames whose peak list is recorded: process is called on a history of at  *)
(* most one point with any peak list of up to MaxPeaks peaks in ascending     *)
(* frequency, each at one of three levels.                                    *)

PeakLevels == {-60, -30, -10}

FrameVolumes == {-20, -5}

\* current_time of these frames: ignored, or one tick.
FrameTimes == {0, 1}

AscendingPeaks ==
    UNION {{[k \in 1 .. n |-> <<220 * (k + 1), d[k]>>] :
               d \in [1 .. n -> PeakLevels]} : n \in 0 .. MaxPeaks}

InitPeaks ==
    /\ Constructed
    /\ input = <<>>
    /\ output = NotApplied

\* input' records the arguments of the call.
PeakFrame ==
    \E current_time \in FrameTimes, peaks \in AscendingPeaks,
       volume \in FrameVolumes :
        /\ Len(times) <= 1
        /\ Process(current_time, peaks, volume)
        /\ input' = <<current_time, peaks, volume>>
        /\ UNCHANGED <<output, canvas, threads, processor, rest>>

SpecPeaks == InitPeaks /\ [][PeakFrame]_vars

\* s is what is left of old after dropping some of its first elements.
IsSuffix(s, old) ==
    /\ Len(s) <= Len(old)
    /\ \A k \in 1 .. Len(s) : s[k] = old[k + Len(old) - Len(s)]

\* Peak i of the list is the last one, or its offset level exceeds
\* main_peak_threshold times the offset level of the next peak.
Dominates(peaks, i) ==
    \/ i = Len(peaks)
    \/ ThresholdDen * (peaks[i][2] + peak_db_offset)
           > ThresholdNum * (peaks[i + 1][2] + peak_db_offset)

\* C13: for current_time > 0 and a non-empty peak list, process appends exactly
\* one point (current_time, f_i, volume), i the smallest index whose peak is the
\* last one or dominates the next; for an empty peak list, and for
\* current_time <= 0, it appends none.
C13_OnePointPerFrame ==
    [][Process(input'[1], input'[2], input'[3]) =>
         LET current_time == input'[1]
             peaks == input'[2]
             volume == input'[3]
         IN  IF current_time > 0 /\ peaks # <<>>
             THEN \E i \in 1 .. Len(peaks) :
                    /\ Dominates(peaks, i)
                    /\ \A j \in 1 .. (i - 1) : ~Dominates(peaks, j)
                    /\ times' # <<>>
                    /\ Newest(times') = current_time
                    /\ Newest(freqs') = peaks[i][1]
                    /\ Newest(volumes') = volume
                    /\ Len(freqs') = Len(times')
                    /\ IsSuffix(SubSeq(times', 1, Len(times') - 1), times)
                    /\ IsSuffix(SubSeq(volumes', 1, Len(volumes') - 1), volumes)
             ELSE /\ IsSuffix(times', times)
                  /\ IsSuffix(freqs', freqs)
                  /\ IsSuffix(volumes', volumes)
      ]_vars

\* The middle peak of three was taken: the lowest is too weak against it, and
\* it dominates the highest.
C13_Witness ==
    /\ input = <<1, <<<<440, -60>>, <<660, -10>>, <<880, -30>>>>, -5>>
    /\ times = <<1, 1>>
    /\ freqs = <<880, 660>>
    /\ volumes = <<-20, -5>>

-----------------------------------------------------------------------------
(* PeakDetector._sort_peaks, src/peak_detector.py.  A peak is <<freq, dB>>.   *)

\* PEAK_LAYER_PARAMS['num']
num == 5

Min(a, b) == IF a < b THEN a ELSE b

\* list.insert at position i, counted from 1
InsertAt(s, i, p) == SubSeq(s, 1, i - 1) \o <<p>> \o SubSeq(s, i, Len(s))

\* sorted(..., key=lambda x: x[1], reverse=True) is stable: a peak goes behind
\* the peaks of at least its amplitude that precede it in the list.
InsertByAmplitude(s, p) ==
    IF \E i \in 1 .. Len(s) : s[i][2] < p[2]
    THEN InsertAt(s, CHOOSE i \in 1 .. Len(s) :
                         /\ s[i][2] < p[2]
                         /\ \A j \in 1 .. (i - 1) : s[j][2] >= p[2], p)
    ELSE Append(s, p)

RECURSIVE SortedByAmplitude(_)
SortedByAmplitude(peaks) ==
    IF peaks = <<>> THEN <<>>
    ELSE InsertByAmplitude(SortedByAmplitude(SubSeq(peaks, 1, Len(peaks) - 1)),
                           peaks[Len(peaks)])

sorted_by_amplitude_Unsorted(peaks) == SubSeq(peaks, 1, Min(num, Len(peaks)))

sorted_by_amplitude(peaks) ==
    SubSeq(SortedByAmplitude(peaks), 1, Min(num, Len(peaks)))

\* sorted(..., key=lambda x: x[0]), stable
InsertByFrequency(s, p) ==
    IF \E i \in 1 .. Len(s) : s[i][1] > p[1]
    THEN InsertAt(s, CHOOSE i \in 1 .. Len(s) :
                         /\ s[i][1] > p[1]
                         /\ \A j \in 1 .. (i - 1) : s[j][1] <= p[1], p)
    ELSE Append(s, p)

RECURSIVE SortedByFrequency(_)
SortedByFrequency(peaks) ==
    IF peaks = <<>> THEN <<>>
    ELSE InsertByFrequency(SortedByFrequency(SubSeq(peaks, 1, Len(peaks) - 1)),
                           peaks[Len(peaks)])

sort_peaks(peaks) == SortedByFrequency(sorted_by_amplitude(peaks))

\* The peaks that survive the filters, precise_data: up to MaxFound peaks of
\* distinct frequencies, in ascending or in descending frequency, each at one
\* of three amplitudes.
Amplitudes == {-30, -20, -10}

FoundPeaks ==
    UNION {{[k \in 1 .. n |-> <<100 * k, d[k]>>] : d \in [1 .. n -> Amplitudes]}
           \cup {[k \in 1 .. n |-> <<100 * (n + 1 - k), d[k]>>] :
                     d \in [1 .. n -> Amplitudes]} : n \in 0 .. MaxFound}

InitSort ==
    /\ Constructed
    /\ input \in FoundPeaks
    /\ output = NotApplied

ApplySort ==
    /\ output = NotApplied
    /\ output' = [fn |-> "_sort_peaks", value |-> sort_peaks(input)]
    /\ UNCHANGED <<melody, compute_thread, last, input, canvas, threads, processor, rest>>

SpecSort == InitSort /\ [][ApplySort]_vars

Elements(s) == {s[i] : i \in 1 .. Len(s)}

\* C14: the result holds at most num peaks (all of them, when there are no more
\* than num), each a peak of the argument and none twice, in non-decreasing
\* frequency, and no peak left out has a higher amplitude than a peak returned.
C14_TopByAmplitude ==
    output.fn = "_sort_peaks" =>
        LET r == output.value IN
        /\ Len(r) = Min(num, Len(input))
        /\ Elements(r) \subseteq Elements(input)
        /\ Cardinality(Elements(r)) = Len(r)
        /\ \A i \in 1 .. (Len(r) - 1) : r[i][1] <= r[i + 1][1]
        /\ \A p \in Elements(input) \ Elements(r) :
               \A q \in Elements(r) : p[2] <= q[2]

\* Six peaks, the weakest of them in the middle of the list: it is the one
\* left out, and the five returned are in ascending frequency.
C14_Witness ==
    /\ output.fn = "_sort_peaks"
    /\ input = << <<600, -10>>, <<500, -20>>, <<400, -30>>,
                  <<300, -20>>, <<200, -10>>, <<100, -20>> >>
    /\ output.value = << <<100, -20>>, <<200, -10>>, <<300, -20>>,
                         <<500, -20>>, <<600, -10>> >>

-----------------------------------------------------------------------------
(* The dynamic threshold pass of PeakDetector.detect_peaks.  The threshold    *)
(* 0.72 is the fraction DynamicNum / DynamicDen; with whole decibels and the  *)
(* amplitudes below no product falls on a peak's offset amplitude, so the     *)
(* float comparison and the exact one agree.                                  *)

\* PEAK_LAYER_PARAMS['db_offset']
db_offset == 60

\* PEAK_LAYER_PARAMS['dynamic_threshold']
DynamicNum == 18
DynamicDen == 25

Reverse(s) == [i \in 1 .. Len(s) |-> s[Len(s) + 1 - i]]

\* np.argsort(peak_freqs)[::-1]
sorted_descending(peaks) == Reverse(SortedByFrequency(peaks))

\* h >= prev_height * dynamic_threshold
PassesThreshold(h, prev_height) == DynamicDen * h >= DynamicNum * prev_height

\* prev_height after a peak that was not kept
AfterDrop_Updates(prev_height, h) == h

AfterDrop(prev_height, h) == prev_height

\* The loop from its i-th iteration on: the peaks appended to filtered_indices.
RECURSIVE FilterLoop(_, _, _)
FilterLoop(sorted, i, prev_height) ==
    IF i > Len(sorted) THEN <<>>
    ELSE LET h == sorted[i][2] + db_offset IN
         IF i = 1 THEN <<sorted[i]>> \o FilterLoop(sorted, i + 1, h)
         ELSE IF PassesThreshold(h, prev_height)
              THEN <<sorted[i]>> \o FilterLoop(sorted, i + 1, h)
              ELSE FilterLoop(sorted, i + 1, AfterDrop(prev_height, h))

filtered_indices(peaks) == FilterLoop(sorted_descending(peaks), 1, None)

InitDynamic ==
    /\ Constructed
    /\ input \in FoundPeaks
    /\ output = NotApplied

ApplyDynamic ==
    /\ output = NotApplied
    /\ output' = [fn |-> "dynamic_threshold", value |-> filtered_indices(input)]
    /\ UNCHANGED <<melody, compute_thread, last, input, canvas, threads, processor, rest>>

SpecDynamic == InitDynamic /\ [][ApplyDynamic]_vars

\* The kept peak that the pass met last before it came to p: the kept peak of
\* the lowest frequency above p's.
IsBaseOf(q, p, kept) ==
    /\ q \in kept
    /\ q[1] > p[1]
    /\ \A r \in kept : r[1] > p[1] => r[1] >= q[1]

\* C15: the peak of the highest frequency is kept, and a peak below it is kept
\* if and only if its offset amplitude is at least dynamic_threshold times the
\* offset amplitude of the most recently kept peak, dropped peaks in between
\* not counting; the kept peaks are in descending frequency.
C15_DynamicThreshold ==
    output.fn = "dynamic_threshold" =>
        LET kept == Elements(output.value) IN
        /\ kept \subseteq Elements(input)
        /\ \A i \in 1 .. (Len(output.value) - 1) :
               output.value[i][1] > output.value[i + 1][1]
        /\ \A p \in Elements(input) :
               IF \A q \in Elements(input) : q[1] <= p[1]
               THEN p \in kept
               ELSE \E q \in kept :
                        /\ IsBaseOf(q, p, kept)
                        /\ p \in kept <=>
                               DynamicDen * (p[2] + db_offset)
                                   >= DynamicNum * (q[2] + db_offset)

\* Below the kept peak at 300 Hz the two weak peaks are both dropped: the one
\* at 100 Hz would pass against the dropped peak at 200 Hz, not against the
\* kept one.
C15_Witness ==
    /\ output.fn = "dynamic_threshold"
    /\ input = << <<100, -30>>, <<200, -30>>, <<300, -10>> >>
    /\ output.value = << <<300, -10>> >>

-----------------------------------------------------------------------------
(* A frame whose peak detection raises.  PeakLayer.process catches the        *)
(* exception of detect_peaks, the frame's peaks stay the empty list that      *)
(* DataProtocol starts with, and MplCanvas.compute goes on to                 *)
(* MelodyLayer.process.                                                       *)

RaisingTimes == FrameTimes \cup {LateTime}

RaisingFrame ==
    \E current_time \in RaisingTimes, volume \in FrameVolumes :
        /\ Process(current_time, <<>>, volume)
        /\ input' = <<current_time, <<>>, volume>>
        /\ UNCHANGED <<output, canvas, threads, processor, rest>>

SpecRaising == InitPeaks /\ [][PeakFrame \/ RaisingFrame]_vars

\* C16: a frame whose peak detection raises leaves times, freqs, volumes and
\* the anchor as they were.
C16_RaisingFrameKeepsMelody == [][RaisingFrame => UNCHANGED melody]_vars

-----------------------------------------------------------------------------
(* MainWindow._compute_loop and MplCanvas.compute have no exception handler:  *)
(* an exception of a layer's process leaves the loop and ends the thread.     *)
(* The specification never resets the run flag, self.processing.              *)

\* C17: whatever a frame's processing raised, the compute loop is still
\* running afterwards, ready to process the next frame that finds new data.
C17_LoopSurvives == compute_thread = "running"

-----------------------------------------------------------------------------
(* MplCanvas: the compute loop appends each finished frame to data_buffer,    *)
(* a deque of at most maxlen frames, and the render timer calls update_plot.  *)
(* A frame is known by its number, the first frame computed being frame 1;    *)
(* latest_artists is the number of the frame whose artists it holds, 0 for    *)
(* the empty list it starts with.                                             *)

\* deque(maxlen=3)
maxlen == 3

\* deque.append: a full deque drops its oldest element
DequeAppend(d, x) ==
    IF Len(d) = maxlen THEN Append(SubSeq(d, 2, Len(d)), x) ELSE Append(d, x)

RenderPeaks == {<<>>, << <<440, -10>> >>, << <<880, -10>> >>}

\* MplCanvas.compute: every layer processes the frame, then the frame is
\* appended to the buffer.
Compute ==
    /\ frames < MaxFrames
    /\ \E peaks \in RenderPeaks :
           /\ Process(1, peaks, -20)
           /\ input' = <<1, peaks, -20>>
    /\ frames' = frames + 1
    /\ data_buffer' = DequeAppend(data_buffer, frames + 1)
    /\ UNCHANGED <<output, latest_artists, threads, processor, rest>>

\* MplCanvas.update_plot: the frame popped is the one at the right end; the
\* frames to its left stay in the buffer.
UpdatePlot ==
    /\ IF data_buffer # <<>>
       THEN /\ latest_artists' = data_buffer[Len(data_buffer)]
            /\ data_buffer' = SubSeq(data_buffer, 1, Len(data_buffer) - 1)
       ELSE UNCHANGED <<data_buffer, latest_artists>>
    /\ UNCHANGED <<melody, compute_thread, last, input, output, frames,
                   threads, processor, rest>>

\* MplCanvas.clean: the buffer is cleared and every layer is cleaned.
CanvasClean ==
    /\ data_buffer' = <<>>
    /\ times' = <<>>
    /\ freqs' = <<>>
    /\ volumes' = <<>>
    /\ last' = [op |-> "clean", time |-> None, added |-> FALSE, freq |-> None,
                branch |-> "skip", timeout |-> FALSE, fixed |-> <<>>]
    /\ UNCHANGED <<possible_misjudgment_peak_time, possible_misjudgment_peak_freq,
                   compute_thread, input, output, latest_artists, frames,
                   threads, processor, rest>>

SpecRender == Init /\ [][Compute \/ UpdatePlot \/ CanvasClean]_vars

\* C18: a render tick draws the newest computed frame when the buffer has
\* frames and that frame was not drawn yet, and otherwise keeps the artists it
\* has; the frame shown never goes back to an older one.
C18_NewestFrameDrawn ==
    [][UpdatePlot =>
          /\ latest_artists' = IF data_buffer # <<>> /\ frames > latest_artists
                               THEN frames ELSE latest_artists
          /\ latest_artists' >= latest_artists]_vars

-----------------------------------------------------------------------------
(* The compute thread inside MelodyLayer.process and the UI thread inside     *)
(* MelodyLayer.clean, statement by statement.  MainWindow starts the compute  *)
(* thread in __init__; _on_record_mode_clicked, _on_file_selected and clean   *)
(* call canvas.clean() on the UI thread without stopping it and without a     *)
(* lock, so the statements of the two calls interleave in any order.          *)
(* compute_pc.at names the statement the compute thread executes next,        *)
(* input holds the arguments of the call in progress.                         *)

RaceTimes == {1, 2}
RacePeaks == {<<>>, << <<440, -10>> >>, << <<880, -10>> >>}

At(a) == compute_thread = "running" /\ compute_pc.at = a

Goto(a) == compute_pc' = [compute_pc EXCEPT !.at = a]

\* Entry of process and self.times.append(current_time)
ProcessEnter ==
    /\ At("idle")
    /\ Len(times) <= MaxLen /\ Len(freqs) <= MaxLen /\ Len(volumes) <= MaxLen
    /\ \E current_time \in RaceTimes, peaks \in RacePeaks :
           /\ input' = <<current_time, peaks, -20>>
           /\ IF MainPeak(peaks) # 0
              THEN /\ times' = Append(times, current_time)
                   /\ compute_pc' = [at |-> "append_freqs", main |-> MainPeak(peaks),
                                     start_idx |-> 0]
              ELSE /\ times' = times
                   /\ compute_pc' = [at |-> "evict", main |-> 0, start_idx |-> 0]
    /\ UNCHANGED <<freqs, volumes, possible_misjudgment_peak_time,
                   possible_misjudgment_peak_freq, compute_thread, last, output,
                   canvas, ui_pc, processor, rest>>

\* self.freqs.append(freq)
AppendFreqs ==
    /\ At("append_freqs")
    /\ freqs' = Append(freqs, input[2][compute_pc.main][1])
    /\ Goto("append_volumes")
    /\ UNCHANGED <<times, volumes, possible_misjudgment_peak_time,
                   possible_misjudgment_peak_freq, compute_thread, last, input,
                   output, canvas, ui_pc, processor, rest>>

\* self.volumes.append(volume)
AppendVolumes ==
    /\ At("append_volumes")
    /\ volumes' = Append(volumes, input[3])
    /\ Goto("evict")
    /\ UNCHANGED <<times, freqs, possible_misjudgment_peak_time,
                   possible_misjudgment_peak_freq, compute_thread, last, input,
                   output, canvas, ui_pc, processor, rest>>

\* valid_indices, start_idx and self.times = self.times[start_idx:], or
\* self.times.clear()
EvictTimes ==
    /\ At("evict")
    /\ times' = Evict(times, StartIdx(times, input[1]))
    /\ compute_pc' = [compute_pc EXCEPT !.at = "evict_freqs",
                                        !.start_idx = StartIdx(times, input[1])]
    /\ UNCHANGED <<freqs, volumes, possible_misjudgment_peak_time,
                   possible_misjudgment_peak_freq, compute_thread, last, input,
                   output, canvas, ui_pc, processor, rest>>

\* self.freqs = self.freqs[start_idx:], or self.freqs.clear()
EvictFreqs ==
    /\ At("evict_freqs")
    /\ freqs' = Evict(freqs, compute_pc.start_idx)
    /\ Goto("evict_volumes")
    /\ UNCHANGED <<times, volumes, possible_misjudgment_peak_time,
                   possible_misjudgment_peak_freq, compute_thread, last, input,
                   output, canvas, ui_pc, processor, rest>>

\* self.volumes = self.volumes[start_idx:], or self.volumes.clear()
EvictVolumes ==
    /\ At("evict_volumes")
    /\ volumes' = Evict(volumes, compute_pc.start_idx)
    /\ Goto("detect")
    /\ UNCHANGED <<times, freqs, possible_misjudgment_peak_time,
                   possible_misjudgment_peak_freq, compute_thread, last, input,
                   output, canvas, ui_pc, processor, rest>>

\* The rest of process: "if has_new_melody and len(self.freqs) > 1" and the
\* detection block under it.
DetectStep ==
    /\ At("detect")
    /\ IF compute_pc.main # 0 /\ Len(freqs) > 1
       THEN DetectAndTimeout(input[1], times, freqs)
       ELSE /\ UNCHANGED <<freqs, possible_misjudgment_peak_time,
                           possible_misjudgment_peak_freq, compute_thread>>
            /\ last' = [op |-> "process", time |-> input[1],
                        added |-> compute_pc.main # 0,
                        freq |-> IF compute_pc.main # 0
                                     THEN input[2][compute_pc.main][1] ELSE None,
                        branch |-> "skip", timeout |-> FALSE, fixed |-> <<>>]
    /\ compute_pc' = AtRest
    /\ UNCHANGED <<times, volumes, input, output, canvas, ui_pc, processor, rest>>

\* MplCanvas.clean up to the first statement of MelodyLayer.clean:
\* self.data_buffer.clear() and self.times = []
CleanTimes ==
    /\ ui_pc = "idle"
    /\ data_buffer' = <<>>
    /\ times' = <<>>
    /\ ui_pc' = "clean_freqs"
    /\ UNCHANGED <<freqs, volumes, possible_misjudgment_peak_time,
                   possible_misjudgment_peak_freq, compute_thread, last, input,
                   output, latest_artists, frames, compute_pc, processor, rest>>

\* self.freqs = []
CleanFreqs ==
    /\ ui_pc = "clean_freqs"
    /\ freqs' = <<>>
    /\ ui_pc' = "clean_volumes"
    /\ UNCHANGED <<times, volumes, possible_misjudgment_peak_time,
                   possible_misjudgment_peak_freq, compute_thread, last, input,
                   output, canvas, compute_pc, processor, rest>>

\* self.volumes = []
CleanVolumes ==
    /\ ui_pc = "clean_volumes"
    /\ volumes' = <<>>
    /\ ui_pc' = "idle"
    /\ UNCHANGED <<times, freqs, possible_misjudgment_peak_time,
                   possible_misjudgment_peak_freq, compute_thread, last, input,
                   output, canvas, compute_pc, processor, rest>>

ComputeStep ==
    \/ ProcessEnter
    \/ AppendFreqs
    \/ AppendVolumes
    \/ EvictTimes
    \/ EvictFreqs
    \/ EvictVolumes
    \/ DetectStep

UIStep == CleanTimes \/ CleanFreqs \/ CleanVolumes

SpecRace == Init /\ [][ComputeStep \/ UIStep]_vars

\* C19: the UI thread is inside clean only while the compute thread is outside
\* process, and where process reads the history (the eviction and the
\* detection block) times, freqs and volumes have the same length.
C19_ExclusiveOwner ==
    /\ ui_pc # "idle" => compute_pc.at = "idle"
    /\ compute_pc.at \in {"evict", "detect"} =>
           Len(times) = Len(freqs) /\ Len(freqs) = Len(volumes)

-----------------------------------------------------------------------------
(* BaseAudioProcessor: the audio parameters and their observers.  An observer *)
(* is a number; the odd ones are objects with an on_audio_params_changed      *)
(* method, as the MplCanvas that MainWindow registers, the even ones are      *)
(* callables.  Either is called with (sample_rate, chunk_size, n_fft), and    *)
(* notified records the arguments of its last call.                           *)

Observers == 1 .. MaxObservers

\* 44100 Hz times 1/2, 1, 3/2, 2 and 5/2, and three rates in between
SampleRates == {22050, 44100, 48000, 66150, 75000, 88200, 96000, 110250}

Max(a, b) == IF a > b THEN a ELSE b

\* round(n / d) of Python 3 for n >= 0 and d > 0: to the nearest integer, a
\* tie to the even one
Round_Down(n, d) == n \div d

Round(n, d) ==
    LET q == n \div d
        r == n % d
    IN  IF 2 * r < d THEN q
        ELSE IF 2 * r > d THEN q + 1
        ELSE IF q % 2 = 0 THEN q ELSE q + 1

\* observer(*params) or observer.on_audio_params_changed(*params)
CallWith(seen, o, params) ==
    [x \in DOMAIN seen \cup {o} |-> IF x = o THEN params ELSE seen[x]]

\* _notify_observers
NotifyObservers(seen, params) ==
    [x \in DOMAIN seen |->
        IF \E i \in 1 .. Len(observers) : observers[i] = x THEN params ELSE seen[x]]

add_params_observer ==
    \E observer \in Observers :
        /\ IF \A i \in 1 .. Len(observers) : observers[i] # observer
           THEN /\ observers' = Append(observers, observer)
                /\ notified' = CallWith(notified, observer,
                                        <<sample_rate, chunk_size, n_fft>>)
           ELSE UNCHANGED <<observers, notified>>
        /\ UNCHANGED <<sample_rate, chunk_size, n_fft>>
        /\ UNCHANGED <<melody, compute_thread, last, input, output, canvas, threads, rest>>

set_sample_rate ==
    \E rate \in SampleRates :
    \E multiplier \in {Max(Round(rate, default_sample_rate), 1)} :
        /\ sample_rate' = rate
        /\ chunk_size' = default_chunk_size * multiplier
        /\ n_fft' = default_n_fft * multiplier
        /\ notified' = NotifyObservers(notified,
                                       <<rate, default_chunk_size * multiplier,
                                         default_n_fft * multiplier>>)
        /\ UNCHANGED observers
        /\ UNCHANGED <<melody, compute_thread, last, input, output, canvas, threads, rest>>

SpecObservers == Init /\ [][add_params_observer \/ set_sample_rate]_vars

\* m is sample_rate / base_sample_rate rounded: no integer is nearer, and of
\* two equally near integers m is the even one.
IsRounded(m) ==
    LET twice == 2 * Abs(m * default_sample_rate - sample_rate) IN
    /\ twice <= default_sample_rate
    /\ twice = default_sample_rate => m % 2 = 0

-----------------------------------------------------------------------------
(* PitchConverter.note_to_freq, src/pitch_utils.py.  A string is a sequence   *)
(* of characters.  The frequency returned is reference * 2^((midi - 69)/12);  *)
(* the model returns the MIDI number, which determines it (69 gives the       *)
(* reference itself).                                                         *)

note_names == <<"C", "C#", "D", "D#", "E", "F", "F#", "G", "G#", "A", "A#", "B">>

Characters == {"A", "B", "H", "a", "#", "b", "4", "-", "\n"}

NoteStrings == UNION {[1 .. n -> Characters] : n \in 0 .. MaxNoteLen}

\* [A-Ga-g] under re.IGNORECASE
IsLetter(c) == c \in {"A", "B", "C", "D", "E", "F", "G",
                      "a", "b", "c", "d", "e", "f", "g"}

\* (?:#|b) under re.IGNORECASE
IsAccidental(c) == c \in {"#", "b", "B"}

\* \d
IsDigit(c) == c \in {"0", "1", "2", "3", "4", "5", "6", "7", "8", "9"}

DigitValue(c) ==
    CASE c = "0" -> 0 [] c = "1" -> 1 [] c = "2" -> 2 [] c = "3" -> 3
      [] c = "4" -> 4 [] c = "5" -> 5 [] c = "6" -> 6 [] c = "7" -> 7
      [] c = "8" -> 8 [] c = "9" -> 9

\* str.upper() of one character
Upper(c) ==
    CASE c = "a" -> "A" [] c = "b" -> "B" [] c = "c" -> "C" [] c = "d" -> "D"
      [] c = "e" -> "E" [] c = "f" -> "F" [] c = "g" -> "G" [] OTHER -> c

\* $ matches at the end of the string and before a newline that ends it.
MatchEnd(s) ==
    IF Len(s) > 0 /\ s[Len(s)] = "\n" THEN Len(s) - 1 ELSE Len(s)

\* -?\d+ from position i to position e
IsOctave(s, i, e) ==
    LET first == IF i <= e /\ s[i] = "-" THEN i + 1 ELSE i IN
    /\ first <= e
    /\ \A k \in first .. e : IsDigit(s[k])

\* The length of group 1 when the pattern matches, 0 when it does not.  The
\* accidental is tried first; the match without it cannot succeed when the
\* one with it does.
MatchGroup1(s) ==
    IF Len(s) = 0 THEN 0
    ELSE IF ~IsLetter(s[1]) THEN 0
    ELSE IF Len(s) >= 2 /\ IsAccidental(s[2])
                        /\ (IsOctave(s, 3, MatchEnd(s)) \/ IsOctave(s, 3, Len(s)))
         THEN 2
    ELSE IF IsOctave(s, 2, MatchEnd(s)) \/ IsOctave(s, 2, Len(s)) THEN 1
    ELSE 0

\* Where group 2 ends
MatchGroup2End(s, g1) ==
    IF IsOctave(s, g1 + 1, Len(s)) THEN Len(s) ELSE MatchEnd(s)

RECURSIVE DecimalValue(_, _, _)
DecimalValue(s, i, e) ==
    IF i > e THEN 0 ELSE 10 * DecimalValue(s, i, e - 1) + DigitValue(s[e])

\* int(match.group(2))
OctaveValue(s, i, e) ==
    IF s[i] = "-" THEN 0 - DecimalValue(s, i + 1, e) ELSE DecimalValue(s, i, e)

\* self.note_names.index(note_part), counted from 0; -1 for ValueError
NoteIndex(note_part) ==
    IF \E k \in 1 .. Len(note_names) : note_names[k] = note_part
    THEN (CHOOSE k \in 1 .. Len(note_names) : note_names[k] = note_part) - 1
    ELSE -1

\* The upper-cased group 1 as one string of the table, "" when it is none
NotePart(s, g1) ==
    IF g1 = 1 THEN Upper(s[1])
    ELSE IF Upper(s[2]) = "#" THEN
             CASE Upper(s[1]) = "A" -> "A#" [] Upper(s[1]) = "B" -> "B#"
               [] Upper(s[1]) = "C" -> "C#" [] Upper(s[1]) = "D" -> "D#"
               [] Upper(s[1]) = "E" -> "E#" [] Upper(s[1]) = "F" -> "F#"
               [] Upper(s[1]) = "G" -> "G#"
         ELSE ""

note_to_freq(note_str) ==
    LET g1 == MatchGroup1(note_str) IN
    IF g1 = 0
    THEN [raised |-> "Invalid note format", midi_num |-> 0]
    ELSE LET note_index == NoteIndex(NotePart(note_str, g1))
             octave == OctaveValue(note_str, g1 + 1, MatchGroup2End(note_str, g1))
         IN  IF note_index = -1
             THEN [raised |-> "Note not recognized", midi_num |-> 0]
             ELSE [raised |-> "", midi_num |-> (octave + 1) * 12 + note_index]

InitNote ==
    /\ Constructed
    /\ input \in NoteStrings
    /\ output = NotApplied

ApplyNote ==
    /\ output = NotApplied
    /\ output' = [fn |-> "note_to_freq", value |-> note_to_freq(input)]
    /\ UNCHANGED <<melody, compute_thread, last, input, canvas, threads, processor, rest>>

SpecNote == InitNote /\ [][ApplyNote]_vars

\* A letter A-G of either case, an optional # or b, and a signed integer
\* octave, with nothing after it.
IsNoteFormat(s) ==
    /\ Len(s) >= 2
    /\ IsLetter(s[1])
    /\ \/ IsOctave(s, 2, Len(s))
       \/ s[2] \in {"#", "b"} /\ IsOctave(s, 3, Len(s))

\* The letter and accidental are a name of the table.
IsTableName(s) ==
    \/ s[2] # "#" /\ s[2] # "b" /\ Upper(s[1]) \in {"C", "D", "E", "F", "G", "A", "B"}
    \/ s[2] = "#" /\ Upper(s[1]) \in {"C", "D", "F", "G", "A"}

\* C21: a value is returned exactly for the strings of the note format whose
\* name is in the table, and every other string raises; 'A' raises the format
\* error and 'H4' the unknown-note error.
C21_OnlyNotesConvert ==
    output.fn = "note_to_freq" =>
        /\ output.value.raised = "" <=> IsNoteFormat(input) /\ IsTableName(input)
        /\ input = <<"A">> => output.value.raised = "Invalid note format"
        /\ input = <<"H", "4">> => output.value.raised = "Note not recognized"

-----------------------------------------------------------------------------
(* MainWindow._compute_loop over a RealtimeAudioProcessor, statement by       *)
(* statement, with the audio callback of sounddevice and the UI thread's      *)
(* MainWindow.clean.  A block is known by its number, the first block         *)
(* delivered being block 1; block 0 is the block of zeros.  The statements    *)
(* under "with self.lock" are one step each.  loop.at names the statement the *)
(* loop executes next, loop.late counts the frames begun after the run flag   *)
(* was reset.  The input device stays available.                              *)

\* deque(maxlen=100)
blocks_maxlen == 100

BlocksAppend(d, x) ==
    IF Len(d) = blocks_maxlen THEN Append(SubSeq(d, 2, Len(d)), x) ELSE Append(d, x)

\* RealtimeAudioProcessor.get_latest_block
LatestBlock_Oldest(blocks) == IF blocks # <<>> THEN blocks[1] ELSE 0

LatestBlock(blocks) == IF blocks # <<>> THEN blocks[Len(blocks)] ELSE 0

\* time.time() - self.start_time at its successive readings, in ticks
ClockTimes == {1, 2}

\* The peaks of a block's spectrum: none for the block of zeros, whose volume
\* is below volume_threshold.
PeaksOf(block) ==
    IF block = 0 THEN <<>>
    ELSE IF block % 2 = 1 THEN << <<440, -10>> >> ELSE << <<880, -10>> >>

LoopAt(a) == compute_thread = "running" /\ loop.at = a

LoopGoto(a) == loop' = [loop EXCEPT !.at = a]

\* while self.processing
Continues_Always(flag) == TRUE

Continues(flag) == flag

LoopWhile ==
    /\ LoopAt("while")
    /\ LoopGoto(IF Continues(processing) THEN "ready" ELSE "done")
    /\ UNCHANGED <<melody, compute_thread, last, input, output, canvas, threads,
                   processor, source, processing, processed, axes>>

\* if self.audio_processor.data_ready.is_set()
LoopReady ==
    /\ LoopAt("ready")
    /\ loop' = IF data_ready
               THEN [loop EXCEPT !.at = "chunk",
                                 !.late = IF processing THEN @ ELSE @ + 1]
               ELSE [loop EXCEPT !.at = "sleep"]
    /\ UNCHANGED <<melody, compute_thread, last, input, output, canvas, threads,
                   processor, source, processing, processed, axes>>

\* chunk = self._get_audio_chunk(), which is never None
LoopChunk ==
    /\ LoopAt("chunk")
    /\ loop' = [loop EXCEPT !.at = "time", !.chunk = LatestBlock(audio_blocks)]
    /\ UNCHANGED <<melody, compute_thread, last, input, output, canvas, threads,
                   processor, source, processing, processed, axes>>

\* self.audio_processor.get_current_time(), the first argument of compute
LoopTime ==
    /\ LoopAt("time")
    /\ \E t \in ClockTimes :
           /\ t >= loop.time
           /\ loop' = [loop EXCEPT !.at = "chunk_again", !.time = t]
    /\ UNCHANGED <<melody, compute_thread, last, input, output, canvas, threads,
                   processor, source, processing, processed, axes>>

\* self._get_audio_chunk(), the second argument of compute
LoopChunkAgain ==
    /\ LoopAt("chunk_again")
    /\ loop' = [loop EXCEPT !.at = "compute", !.chunk = LatestBlock(audio_blocks)]
    /\ UNCHANGED <<melody, compute_thread, last, input, output, canvas, threads,
                   processor, source, processing, processed, axes>>

\* self.canvas.compute(time, chunk); an exception of process ends the thread
\* before the frame reaches the buffer.
LoopCompute ==
    /\ LoopAt("compute")
    /\ Process(loop.time, PeaksOf(loop.chunk), -20)
    /\ input' = <<loop.time, loop.chunk>>
    /\ frames' = frames + 1
    /\ data_buffer' = IF compute_thread' = "running"
                      THEN DequeAppend(data_buffer, frames + 1) ELSE data_buffer
    /\ processed' = Max(processed, loop.chunk)
    /\ LoopGoto("clear")
    /\ UNCHANGED <<output, latest_artists, threads, processor, source,
                   processing, axes>>

\* self.audio_processor.data_ready.clear()
LoopClear ==
    /\ LoopAt("clear")
    /\ data_ready' = FALSE
    /\ LoopGoto("sleep")
    /\ UNCHANGED <<melody, compute_thread, last, input, output, canvas, threads,
                   processor, audio_blocks, current_frame, producer,
                   processing, processed, axes>>

\* time.sleep(sleep_time)
LoopSleep ==
    /\ LoopAt("sleep")
    /\ LoopGoto("while")
    /\ UNCHANGED <<melody, compute_thread, last, input, output, canvas, threads,
                   processor, source, processing, processed, axes>>

\* The statements of the loop around the frame
LoopControl ==
    \/ LoopWhile
    \/ LoopReady
    \/ LoopChunk
    \/ LoopTime
    \/ LoopChunkAgain
    \/ LoopClear
    \/ LoopSleep

LoopStep == LoopControl \/ LoopCompute

\* What LoopCompute does to the loop: the call of compute is over.
FrameEnds == LoopAt("compute") /\ loop' = [loop EXCEPT !.at = "clear"]

\* _audio_callback under self.lock: the block is appended
CallbackAppend ==
    /\ producer = "idle"
    /\ ui_pc # "joined"
    /\ Len(audio_blocks) < MaxBlocks
    /\ audio_blocks' = BlocksAppend(audio_blocks, Len(audio_blocks) + 1)
    /\ producer' = "set"
    /\ UNCHANGED <<melody, compute_thread, last, input, output, canvas, threads,
                   processor, current_frame, data_ready, runloop, axes>>

\* self.data_ready.set(), after the lock is released
CallbackSet ==
    /\ producer = "set"
    /\ data_ready' = TRUE
    /\ producer' = "idle"
    /\ UNCHANGED <<melody, compute_thread, last, input, output, canvas, threads,
                   processor, audio_blocks, current_frame, runloop, axes>>

\* MainWindow.clean up to the join: canvas.clean() and self.processing = False
Stop ==
    /\ ui_pc = "idle"
    /\ processing
    /\ data_buffer' = <<>>
    /\ times' = <<>>
    /\ freqs' = <<>>
    /\ volumes' = <<>>
    /\ processing' = FALSE
    /\ ui_pc' = "join"
    /\ UNCHANGED <<possible_misjudgment_peak_time, possible_misjudgment_peak_freq,
                   compute_thread, last, input, output, latest_artists, frames,
                   compute_pc, processor, source, loop, processed, axes>>

Terminated == loop.at = "done" \/ compute_thread = "dead"

\* self.compute_thread.join() returns, and audio_processor.cleanup() stops
\* the stream
Join ==
    /\ ui_pc = "join"
    /\ Terminated
    /\ ui_pc' = "joined"
    /\ UNCHANGED <<melody, compute_thread, last, input, output, canvas,
                   compute_pc, processor, source, runloop, axes>>

SpecStop == Init /\ [][LoopStep \/ CallbackAppend \/ CallbackSet \/ Stop \/ Join]_vars

\* The compute thread is scheduled whenever it can take a step, a call of
\* compute comes to its end, and the UI thread's join returns once the thread
\* has ended.
SpecStopFair ==
    SpecStop /\ WF_vars(LoopControl) /\ WF_loop(FrameEnds) /\ WF_vars(Join)

\* C22 as stated: no frame is begun once the run flag is reset.
C22_NoFrameAfterStop == loop.late = 0

\* C22: after the run flag is reset the loop begins at most one more frame,
\* the frame of the iteration whose test of the flag came before the reset,
\* and it ends, so that the join of clean returns.
C22_StopsAfterIteration ==
    /\ [](loop.late <= 1)
    /\ (ui_pc = "join") ~> (ui_pc = "joined")

\* The join has returned after a frame that began after the reset.
C22_Witness ==
    /\ ui_pc = "joined"
    /\ loop.at = "done"
    /\ loop.late = 1
    /\ frames >= 1

\* The loop has just called get_latest_block.
ReadsBlock == loop.at \in {"chunk", "chunk_again"} /\ loop'.at # loop.at

\* C23: get_latest_block returns the block appended last, which is the block
\* whose number is the count of blocks appended (block 0, the zeros, when
\* none was), and never a block older than one it returned before.
C23_LatestBlockReturned ==
    [][ReadsBlock =>
          /\ loop'.chunk = Len(audio_blocks)
          /\ loop'.chunk >= loop.chunk]_vars

\* The third block was appended while the loop held the second, and the next
\* read returned the third.
C23_Witness ==
    /\ loop.at = "compute"
    /\ loop.chunk = 3
    /\ Len(audio_blocks) = 3
    /\ processed = 1

-----------------------------------------------------------------------------
\* C24: a call of process with a current_time that is not positive leaves
\* times, freqs, volumes and the anchor as they were, whatever its peaks and
\* volume.
C24_NonPositiveTimeIgnored ==
    [][last'.op = "process" /\ last'.time <= 0 => UNCHANGED melody]_vars

\* A call at time 0 with three peaks was ignored by a tracker that holds a point.
C24_Witness ==
    /\ last.branch = "ignored"
    /\ input[1] = 0
    /\ Len(input[2]) = 3
    /\ Len(times) = 1

-----------------------------------------------------------------------------
\* C25: a call of process that runs the retroactive fix returns: the backward
\* scan of fix_misjudgment stays inside the stored points and does not raise.
C25_ScanStaysInside ==
    [][last'.op = "process" /\ last'.branch = "confirm" =>
          compute_thread' = "running"]_vars

-----------------------------------------------------------------------------
(* The frequency axes.  SpectrumCurveLayer computes x_subband, the FFT bins   *)
(* inside the frequency range, from (sample_rate, n_fft) whenever the canvas  *)
(* is told a new sample rate; x_new is the same logarithmic axis for every    *)
(* rate.  PeakLayer does not override on_audio_params_changed and builds its  *)
(* PeakDetector once, from the axes of the first frame loud enough, keeping   *)
(* x_subband and freq_step = x_subband[1] - x_subband[0] from then on.  An    *)
(* axis is the pair <<sample_rate, n_fft>> it was computed from, <<>> while   *)
(* there is none; the bins of two axes are the same when sample_rate / n_fft  *)
(* is.  The canvas is observer 1.                                             *)

\* PEAK_LAYER_PARAMS['volume_threshold']
volume_threshold == -50

AxisVolumes == {-60, -20}

\* SpectrumCurveLayer.on_audio_params_changed
SpectrumAxis(axis, rate, fft) ==
    IF axis = <<>> THEN <<rate, fft>>
    ELSE IF rate # axis[1] THEN <<rate, fft>> ELSE axis

\* "if not self.detector: self.detector = PeakDetector(...)"
DetectorAxis(detector, axis) == IF detector = <<>> THEN axis ELSE detector

\* A processor is constructed and the canvas is registered with it:
\* MainWindow.__init__, _on_record_mode_clicked, _on_file_selected.
NewProcessor ==
    /\ sample_rate' = default_sample_rate
    /\ chunk_size' = default_chunk_size
    /\ n_fft' = default_n_fft
    /\ observers' = <<1>>
    /\ notified' = CallWith(<<>>, 1, <<default_sample_rate, default_chunk_size,
                                       default_n_fft>>)
    /\ spectrum_axis' = SpectrumAxis(spectrum_axis, default_sample_rate,
                                     default_n_fft)
    /\ UNCHANGED <<melody, compute_thread, last, input, output, canvas, threads,
                   source, runloop, detector_axis>>

\* load_audio_file: set_sample_rate when the file's rate is not the current
\* one, which notifies the canvas.
LoadFile ==
    /\ observers # <<>>
    /\ \E rate \in SampleRates :
       \E multiplier \in {Max(Round(rate, default_sample_rate), 1)} :
           IF rate # sample_rate
           THEN /\ sample_rate' = rate
                /\ chunk_size' = default_chunk_size * multiplier
                /\ n_fft' = default_n_fft * multiplier
                /\ notified' = NotifyObservers(notified,
                                   <<rate, default_chunk_size * multiplier,
                                     default_n_fft * multiplier>>)
                /\ spectrum_axis' = SpectrumAxis(spectrum_axis, rate,
                                                 default_n_fft * multiplier)
           ELSE UNCHANGED <<sample_rate, chunk_size, n_fft, notified, spectrum_axis>>
    /\ UNCHANGED <<melody, compute_thread, last, input, output, canvas, threads,
                   observers, source, runloop, detector_axis>>

\* MplCanvas.compute: the spectrum on the spectrum layer's axes, the peaks by
\* the detector when the volume reaches volume_threshold, the melody point,
\* and the frame into the buffer.
AxisFrame ==
    /\ observers # <<>>
    /\ frames < MaxFrames
    /\ \E peaks \in RenderPeaks, volume \in AxisVolumes :
           /\ volume < volume_threshold => peaks = <<>>
           /\ detector_axis' = IF volume < volume_threshold THEN detector_axis
                               ELSE DetectorAxis(detector_axis, spectrum_axis)
           /\ Process(1, peaks, volume)
           /\ input' = <<1, peaks, volume>>
    /\ frames' = frames + 1
    /\ data_buffer' = IF compute_thread' = "running"
                      THEN DequeAppend(data_buffer, frames + 1) ELSE data_buffer
    /\ UNCHANGED <<output, latest_artists, threads, processor, source, runloop,
                   spectrum_axis>>

SpecAxes == Init /\ [][NewProcessor \/ LoadFile \/ AxisFrame]_vars

\* The same bins: sample_rate / n_fft is the same.
SameAxis(a, b) == a # <<>> /\ b # <<>> /\ a[1] * b[2] = b[1] * a[2]

\* C26: in every frame in which the peak detector runs, its axes are the axes
\* on which the spectrum layer computed the frame's spectrum.
C26_DetectorOnSpectrumAxes ==
    [][frames' # frames /\ input'[3] >= volume_threshold =>
          SameAxis(detector_axis', spectrum_axis)]_vars

-----------------------------------------------------------------------------
\* C27: the compute loop clears the data-ready flag only when a compute frame
\* has processed the latest block the producer appended.
C27_ClearedOnlyWhenProcessed ==
    [][data_ready /\ ~data_ready' => processed >= Len(audio_blocks)]_vars

-----------------------------------------------------------------------------
\* C28: whenever no process call and no clean call is in progress, times,
\* freqs and volumes have the same length.
C28_SameLength ==
    (compute_thread = "running" /\ compute_pc.at = "idle" /\ ui_pc = "idle") =>
        Len(times) = Len(freqs) /\ Len(freqs) = Len(volumes)

-----------------------------------------------------------------------------
(* The file source.  FileAudioProcessor keeps the blocks of the loaded file   *)
(* and current_frame, the number of blocks played; block i of a file is the   *)
(* number i.  producer is "playing" while the output stream is active.  The   *)
(* playback callback, seek, get_latest_block and get_current_time run under   *)
(* self.lock; cleanup does not, and its two assignments are two steps of the  *)
(* UI thread.  In the loop of a file source loop.time is the current_frame    *)
(* from which get_current_time computed the time.                             *)

FileLengths == 0 .. MaxBlocks
FileRates == {44100, 48000}
SeekPositions == 0 .. MaxBlocks

\* blocks[i] of Python is defined for -len <= i < len
InRange(blocks, i) == -Len(blocks) <= i /\ i < Len(blocks)

Item(blocks, i) == IF i >= 0 THEN blocks[i + 1] ELSE blocks[Len(blocks) + i + 1]

FirstBlocks(n) == [i \in 1 .. n |-> i]

\* FileAudioProcessor.get_latest_block inside _get_audio_chunk, whose handler
\* returns silence when the index is outside the list
FileLatestBlock(blocks, frame) ==
    IF frame = 0 THEN 0
    ELSE IF InRange(blocks, frame - 1) THEN Item(blocks, frame - 1) ELSE 0

\* FileAudioProcessor.get_current_time in ticks, rounded up:
\* max(current_frame * chunk_size / sample_rate, 0.001) is positive
FileTicks(frame) ==
    Max(1, (frame * chunk_size * TicksPerSecond + sample_rate - 1) \div sample_rate)

\* cleanup: the stream is stopped and self.audio_blocks = []
CleanupBlocks ==
    /\ ui_pc = "idle"
    /\ producer' = "idle"
    /\ audio_blocks' = <<>>
    /\ ui_pc' = "cleanup_frame"
    /\ UNCHANGED <<melody, compute_thread, last, input, output, canvas,
                   compute_pc, processor, current_frame, data_ready, runloop, axes>>

\* cleanup: self.current_frame = 0
CleanupFrame ==
    /\ ui_pc = "cleanup_frame"
    /\ current_frame' = 0
    /\ \E next \in {"idle", "load"} : ui_pc' = next
    /\ UNCHANGED <<melody, compute_thread, last, input, output, canvas,
                   compute_pc, processor, audio_blocks, data_ready, producer,
                   runloop, axes>>

\* load_audio_file after its cleanup: the sample rate of the file, its blocks,
\* start_stream
FileLoad ==
    /\ ui_pc = "load"
    /\ \E rate \in FileRates, n \in FileLengths :
       \E multiplier \in {Max(Round(rate, default_sample_rate), 1)} :
           /\ IF rate # sample_rate
              THEN /\ sample_rate' = rate
                   /\ chunk_size' = default_chunk_size * multiplier
                   /\ n_fft' = default_n_fft * multiplier
                   /\ notified' = NotifyObservers(notified,
                                      <<rate, default_chunk_size * multiplier,
                                        default_n_fft * multiplier>>)
                   /\ spectrum_axis' =
                          IF \E i \in 1 .. Len(observers) : observers[i] = 1
                          THEN SpectrumAxis(spectrum_axis, rate,
                                            default_n_fft * multiplier)
                          ELSE spectrum_axis
              ELSE UNCHANGED <<sample_rate, chunk_size, n_fft, notified,
                               spectrum_axis>>
           /\ audio_blocks' = FirstBlocks(n)
    /\ producer' = "playing"
    /\ ui_pc' = "idle"
    /\ UNCHANGED <<melody, compute_thread, last, input, output, canvas,
                   compute_pc, observers, current_frame, data_ready, runloop,
                   detector_axis>>

\* _playback_callback under self.lock; an exception stops the stream
PlaybackCallback ==
    /\ producer = "playing"
    /\ IF current_frame < Len(audio_blocks)
       THEN IF InRange(audio_blocks, current_frame)
            THEN /\ current_frame' = current_frame + 1
                 /\ data_ready' = TRUE
                 /\ producer' = producer
            ELSE /\ producer' = "idle"
                 /\ UNCHANGED <<current_frame, data_ready>>
       ELSE /\ current_frame' = 0
            /\ UNCHANGED <<data_ready, producer>>
    /\ UNCHANGED <<melody, compute_thread, last, input, output, canvas, threads,
                   processor, audio_blocks, runloop, axes>>

\* _on_slider_value_changed: FileAudioProcessor.seek(position)
Seek ==
    /\ ui_pc = "idle"
    /\ \E position \in SeekPositions :
           current_frame' = Min(Max(0, position), Len(audio_blocks) - 1)
    /\ UNCHANGED <<melody, compute_thread, last, input, output, canvas, threads,
                   processor, audio_blocks, data_ready, producer, runloop, axes>>

\* chunk = self._get_audio_chunk()
FileLoopChunk ==
    /\ LoopAt("chunk")
    /\ loop' = [loop EXCEPT !.at = "time",
                            !.chunk = FileLatestBlock(audio_blocks, current_frame)]
    /\ UNCHANGED <<melody, compute_thread, last, input, output, canvas, threads,
                   processor, source, processing, processed, axes>>

\* self.audio_processor.get_current_time(), the first argument of compute
FileLoopTime ==
    /\ LoopAt("time")
    /\ loop' = [loop EXCEPT !.at = "chunk_again", !.time = current_frame]
    /\ UNCHANGED <<melody, compute_thread, last, input, output, canvas, threads,
                   processor, source, processing, processed, axes>>

\* self._get_audio_chunk(), the second argument of compute
FileLoopChunkAgain ==
    /\ LoopAt("chunk_again")
    /\ loop' = [loop EXCEPT !.at = "compute",
                            !.chunk = FileLatestBlock(audio_blocks, current_frame)]
    /\ UNCHANGED <<melody, compute_thread, last, input, output, canvas, threads,
                   processor, source, processing, processed, axes>>

\* self.canvas.compute(time, chunk)
FileLoopCompute ==
    /\ LoopAt("compute")
    /\ frames < MaxFileFrames
    /\ Process(FileTicks(loop.time), PeaksOf(loop.chunk), -20)
    /\ input' = <<loop.time, loop.chunk>>
    /\ frames' = frames + 1
    /\ data_buffer' = IF compute_thread' = "running"
                      THEN DequeAppend(data_buffer, frames + 1) ELSE data_buffer
    /\ processed' = Max(processed, loop.chunk)
    /\ LoopGoto("clear")
    /\ UNCHANGED <<output, latest_artists, threads, processor, source,
                   processing, axes>>

FileLoopStep ==
    \/ LoopWhile
    \/ LoopReady
    \/ FileLoopChunk
    \/ FileLoopTime
    \/ FileLoopChunkAgain
    \/ FileLoopCompute
    \/ LoopClear
    \/ LoopSleep

SpecFile ==
    Init /\ [][FileLoopStep \/ CleanupBlocks \/ CleanupFrame \/ FileLoad
                \/ PlaybackCallback \/ Seek]_vars

\* C29: whenever the UI thread is between two operations on the file source,
\* current_frame is at least 0 and at most the number of loaded blocks.
C29_FrameInsideBlocks ==
    ui_pc = "idle" => 0 <= current_frame /\ current_frame <= Len(audio_blocks)

\* C30: the frame a file source hands to compute pairs block number k with the
\* time computed from current_frame = k.
C30_TimeOfBlock ==
    [][(LoopAt("compute") /\ input' # input /\ input'[2] # 0) =>
           input'[1] = input'[2]]_vars

====
